---------------------------- MODULE Spec2Model ----------------------------
(***************************************************************************)
(* A model of backend/internal/crud.py: the generic filter / paginate /    *)
(* validate / persist layer over a relational store.                       *)
(*                                                                         *)
(* One request is one step: the API layer hands an operation a model       *)
(* (entity class), its arguments and a session; the operation runs to its  *)
(* exit (return or raise) and leaves behind its outcome, its return value, *)
(* the committed store and the list of calls it made on the session.       *)
(* Respond is the API layer sending the response and dropping the session. *)
(***************************************************************************)
EXTENDS Integers, Sequences, FiniteSets, TLC

VARIABLES
    db,           \* committed store: table name -> set of rows
    orderColumn,  \* which timestamp attribute the entity classes declare
    call,         \* the operation in progress and its arguments ("idle": none)
    outcome,      \* "ok" or the exception that left the operation
    result,       \* the value the operation returned
    trace,        \* the calls made on the session during the operation, and
                  \* "validated" where valid_referenced_key returned True
    loaded        \* `item` as get_item_by_id handed it to update/delete

vars == <<db, orderColumn, call, outcome, result, trace, loaded>>

----------------------------------------------------------------------------
(* Bounds *)

MaxRows == 2      \* rows per table
MaxTime == 2      \* distinct timestamp values
MaxSkip == 2      \* largest offset requested
MaxLimit == 2     \* largest page size requested
MaxDay == 3       \* calendar days a timestamp or a period bound may fall on

----------------------------------------------------------------------------
(* Python values: every value carries its runtime type. *)

I(n) == [t |-> "int", v |-> n]
S(s) == [t |-> "str", v |-> s]
B(b) == [t |-> "bool", v |-> b]
D(n) == [t |-> "datetime", v |-> n]
Date(d) == [t |-> "date", v |-> d]
None == [t |-> "NoneType", v |-> 0]

\* Python truthiness: `if value:` / `if not refer:`
Truthy(x) ==
    CASE x.t = "int" -> x.v # 0
      [] x.t = "str" -> x.v # <<>>
      [] x.t = "bool" -> x.v
      [] x.t \in {"datetime", "date"} -> TRUE
      [] OTHER -> FALSE

\* isinstance(value, type(stored)): bool is a subclass of int
IsInstance(value, stored) ==
    \/ value.t = stored.t
    \/ value.t = "bool" /\ stored.t = "int"

\* Strings are sequences of characters; the titles in use.
Titles == {<<"a">>, <<"A", "b">>}

Times == 1..MaxTime

\* A datetime is an instant counted in the smallest unit the store keeps;
\* day d is the instants d * TicksPerDay .. d * TicksPerDay + TicksPerDay - 1.
TicksPerDay == 2

\* datetime.time.min and datetime.time.max: the first and last instant of a day
time_min == 0

time_max == TicksPerDay - 1

\* datetime.combine(date, time)
combine(date, time) == D(date.v * TicksPerDay + time)

----------------------------------------------------------------------------
(* Entity metadata: two entity classes, articles.press_id -> press.id. *)

Models == {"press", "articles"}

\* press declares no timestamp attribute; articles declares `orderColumn`;
\* records declares the two timestamps filter_by_period reads.
\* model.__table__.columns
Columns(model) ==
    IF model = "press"
    THEN {"id", "valid"}
    ELSE IF model = "records"
    THEN {"id", "valid", "created_at", "updated_at"}
    ELSE {"id", "title", "press_id", "valid", orderColumn}

\* column.foreign_keys, in column order: <<column, the table it references>>
ForeignKeys(model) ==
    IF model = "articles" THEN << <<"press_id", "press">> >> ELSE << >>

\* hasattr(model, name)
HasAttr(model, name) == name \in Columns(model)

\* referenced_tables: column name -> referenced table name
get_referenced_table_and_fk(model) == ForeignKeys(model)


----------------------------------------------------------------------------
(* The relational store beneath the session. *)

Row(model, id, title, press_id, valid, stamp) ==
    [c \in Columns(model) |->
        CASE c = "id" -> I(id)
          [] c = "title" -> title
          [] c = "press_id" -> press_id
          [] c = "valid" -> B(valid)
          [] OTHER -> D(stamp)]

\* Primary keys are generated by the store: one more than the largest in use.
NextId(store, model) ==
    IF store[model] = {} THEN 1
    ELSE 1 + (CHOOSE n \in 1..MaxRows :
                 /\ \E r \in store[model] : r["id"] = I(n)
                 /\ \A r \in store[model] : r["id"].v <= n)

\* The store enforces the declared foreign keys: a non-null value must be the
\* id of a row of the referenced table.
ForeignKeysHold(store, model, row) ==
    \A k \in 1..Len(ForeignKeys(model)) :
        LET fk == ForeignKeys(model)[k]
        IN  \/ row[fk[1]] = None
            \/ \E r \in store[fk[2]] : r["id"] = row[fk[1]]

\* A query handle: db.query(model) with the criteria added by .filter().
Query(model) == [model |-> model, where |-> <<>>]

\* The local `query` of get_item_by_column before any assignment.
Unbound == [model |-> "<unbound>", where |-> <<>>]

Filter(query, col, op, val) ==
    [query EXCEPT !.where = Append(@, [col |-> col, op |-> op, val |-> val])]

Lower(ch) == IF ch = "A" THEN "a" ELSE IF ch = "B" THEN "b" ELSE ch

LowerStr(s) == [i \in 1..Len(s) |-> Lower(s[i])]

\* s contains sub as a contiguous run
Contains(s, sub) ==
    \E k \in 0..(Len(s) - Len(sub)) :
        \A i \in 1..Len(sub) : s[k + i] = sub[i]

\* s ILIKE pat: `%` stands for any run of characters, `_` for any one
\* character, every other character for itself in either case.
RECURSIVE Like(_, _)
Like(s, pat) ==
    IF pat = <<>> THEN s = <<>>
    ELSE IF Head(pat) = "%"
    THEN Like(s, Tail(pat)) \/ (s # <<>> /\ Like(Tail(s), pat))
    ELSE /\ s # <<>>
         /\ Head(pat) = "_" \/ Lower(Head(s)) = Lower(Head(pat))
         /\ Like(Tail(s), Tail(pat))

\* One criterion of a WHERE clause on one row.
Matches(row, crit) ==
    CASE crit.op = "eq" -> row[crit.col] = crit.val
      [] crit.op = "ilike" ->
            /\ row[crit.col].t = "str"
            /\ Like(row[crit.col].v, crit.val.v)
      [] crit.op = "ge" ->
            /\ row[crit.col].t = "datetime"
            /\ row[crit.col].v >= crit.val.v
      [] crit.op = "le" ->
            /\ row[crit.col].t = "datetime"
            /\ row[crit.col].v <= crit.val.v
      [] OTHER -> row[crit.col] = B(TRUE)

\* query.all(), as a set: the rows that satisfy every criterion.
All(query, store) ==
    {r \in store[query.model] :
        \A i \in 1..Len(query.where) : Matches(r, query.where[i])}

----------------------------------------------------------------------------
(* How an operation leaves: its outcome, return value, the store, the      *)
(* session calls made so far and the item it loaded by primary key.        *)

NoItem == [id |-> None]

NoResult ==
    [kind |-> "none", item |-> NoItem, rows |-> {}, page |-> <<>>, query |-> Unbound]

ItemResult(item) == [NoResult EXCEPT !.kind = "item", !.item = item]
RowsResult(rows) == [NoResult EXCEPT !.kind = "rows", !.rows = rows]
PageResult(page) == [NoResult EXCEPT !.kind = "page", !.page = page]
QueryResult(query) == [NoResult EXCEPT !.kind = "query", !.query = query]

Exit(exc, res, store, tr, item) ==
    [outcome |-> exc, result |-> res, db |-> store, trace |-> tr, loaded |-> item]

Raise(exc, store, tr) == Exit(exc, NoResult, store, tr, NoItem)
Return(res, store, tr) == Exit("ok", res, store, tr, NoItem)

----------------------------------------------------------------------------
(* get_item_by_id: primary-key lookup; the session is closed on the way out. *)

\* as get_item_by_id, but the lookup skips rows whose valid flag is false
get_item_by_id_valid_only(model, index, store, tr) ==
    LET found == {r \in store[model] : r["id"] = I(index) /\ r["valid"] = B(TRUE)}
        tr1 == Append(tr, "query")
    IN  IF found = {}
        THEN Raise("ItemKeyValidationError", store, Append(tr1, "close"))
        ELSE LET item == CHOOSE r \in found : TRUE
             IN  Exit("ok", ItemResult(item), store, Append(tr1, "close"), item)

get_item_by_id(model, index, store, tr) ==
    LET found == {r \in store[model] : r["id"] = I(index)}
        tr1 == Append(tr, "query")
    IN  IF found = {}
        THEN Raise("ItemKeyValidationError", store, Append(tr1, "close"))
        ELSE LET item == CHOOSE r \in found : TRUE
             IN  Exit("ok", ItemResult(item), store, Append(tr1, "close"), item)

----------------------------------------------------------------------------
(* get_item_by_column: `columns` is the dict's items in insertion order.   *)
(* Every usable entry rebuilds `query` from db.query(model).               *)

RECURSIVE ColumnLoop(_, _, _, _)
ColumnLoop(model, columns, i, st) ==
    IF i > Len(columns) THEN st
    ELSE LET column_name == columns[i][1]
             value == columns[i][2]
         IN  ColumnLoop(model, columns, i + 1,
                IF Truthy(value) /\ column_name \in Columns(model)
                THEN [query |-> Filter(Filter(Query(model), column_name, "eq", value),
                                       "valid", "is_true", B(TRUE)),
                      trace |-> Append(st.trace, "query")]
                ELSE st)

get_item_by_column(model, columns, mode, store, tr) ==
    LET st == ColumnLoop(model, columns, 1, [query |-> Unbound, trace |-> tr])
    IN  IF st.query = Unbound
        THEN Raise("UnboundLocalError", store, st.trace)
        ELSE IF mode
        THEN Return(RowsResult(All(st.query, store)), store, st.trace)
        ELSE Return(QueryResult(st.query), store, st.trace)

----------------------------------------------------------------------------
(* valid_referenced_key: one lookup per declared foreign key the item has. *)

\* The `item` argument: a mapped instance (every column is an attribute) or
\* a plain dict (only dict's own methods are attributes).
Instance(fields) == [kind |-> "instance", fields |-> fields]
Dict(fields) == [kind |-> "dict", fields |-> fields]

DictAttrs == {"keys", "values", "items", "get", "update", "pop", "copy"}

\* hasattr(item, attr)
HasAttrObj(item, attr) ==
    IF item.kind = "instance" THEN attr \in DOMAIN item.fields
    ELSE attr \in DictAttrs

\* `except Exception as e: raise HTTPException(500)` around a block that
\* left with `exc`
Wrap500(exc) == IF exc = "ok" THEN "ok" ELSE "HTTP_500"

\* The table get_item_by_column is asked to search for the referenced row.
LookupModel(model, fk) == model

RECURSIVE ReferenceLoop(_, _, _, _, _, _)
ReferenceLoop(model, item, referenced_tables, k, store, tr) ==
    IF k > Len(referenced_tables) THEN Return(NoResult, store, Append(tr, "validated"))
    ELSE LET attr == referenced_tables[k][1]
         IN  IF ~HasAttrObj(item, attr)
             THEN ReferenceLoop(model, item, referenced_tables, k + 1, store, tr)
             ELSE LET refer == get_item_by_column(
                                   LookupModel(model, referenced_tables[k]),
                                   << <<attr, item.fields[attr]>> >>, TRUE, store, tr)
                      inner == IF refer.outcome # "ok" THEN refer.outcome
                               ELSE IF refer.result.rows = {} THEN "HTTP_404"
                               ELSE "ok"
                  IN  IF Wrap500(inner) # "ok"
                      THEN Raise(Wrap500(inner), store, refer.trace)
                      ELSE ReferenceLoop(model, item, referenced_tables, k + 1,
                                         store, refer.trace)

\* Returns (outcome "ok") or raises.
valid_referenced_key(model, item, store, tr) ==
    ReferenceLoop(model, item, get_referenced_table_and_fk(model), 1, store, tr)

----------------------------------------------------------------------------
(* create_item *)

Faults == {"none", "IntegrityError", "OperationalError"}

\* db.commit(): what it raises, given the fault the store injects and the
\* rows the flush writes.
CommitError(fault, store, model, row) ==
    IF fault # "none" THEN fault
    ELSE IF ~ForeignKeysHold(store, model, row) THEN "IntegrityError"
    ELSE "ok"

\* model(**req.dict()): attributes not in the payload are None until flushed.
Candidate(model, req) ==
    [c \in Columns(model) |-> IF c \in DOMAIN req THEN req[c] ELSE None]

\* The row the INSERT stores: generated key and column defaults filled in.
Inserted(store, model, fields, stamp) ==
    [c \in Columns(model) |->
        CASE c = "id" -> I(NextId(store, model))
          [] c = "valid" -> IF fields[c] = None THEN B(TRUE) ELSE fields[c]
          [] c = orderColumn -> D(stamp)
          [] OTHER -> fields[c]]

\* as create_item, but the candidate is added whatever the validator did
create_item_unvalidated(model, req, fault, stamp, store, tr) ==
    LET item == Candidate(model, req)
        v == valid_referenced_key(model, Instance(item), store, tr)
        row == Inserted(store, model, item, stamp)
        err == CommitError(fault, store, model, row)
        tr2 == v.trace \o <<"add", "commit">>
    IN  IF err = "IntegrityError"
        THEN Raise("HTTP_400", store, tr2 \o <<"rollback", "close">>)
        ELSE IF err # "ok"
        THEN Raise(err, store, Append(tr2, "close"))
        ELSE Return(ItemResult(row),
                    [store EXCEPT ![model] = @ \cup {row}],
                    tr2 \o <<"refresh", "close">>)

\* as create_item, but without the `except IntegrityError` clause
create_item_integrity_unhandled(model, req, fault, stamp, store, tr) ==
    LET item == Candidate(model, req)
        v == valid_referenced_key(model, Instance(item), store, tr)
        row == Inserted(store, model, item, stamp)
        err == CommitError(fault, store, model, row)
        tr2 == v.trace \o <<"add", "commit">>
    IN  IF v.outcome # "ok"
        THEN Raise(v.outcome, store, Append(v.trace, "close"))
        ELSE IF err # "ok"
        THEN Raise(err, store, Append(tr2, "close"))
        ELSE Return(ItemResult(row),
                    [store EXCEPT ![model] = @ \cup {row}],
                    tr2 \o <<"refresh", "close">>)

create_item(model, req, fault, stamp, store, tr) ==
    LET item == Candidate(model, req)
        v == valid_referenced_key(model, Instance(item), store, tr)
        row == Inserted(store, model, item, stamp)
        err == CommitError(fault, store, model, row)
        tr2 == v.trace \o <<"add", "commit">>
    IN  IF v.outcome # "ok"
        THEN Raise(v.outcome, store, Append(v.trace, "close"))
        ELSE IF err = "IntegrityError"
        THEN Raise("HTTP_400", store, tr2 \o <<"rollback", "close">>)
        ELSE IF err # "ok"
        THEN Raise(err, store, Append(tr2, "close"))
        ELSE Return(ItemResult(row),
                    [store EXCEPT ![model] = @ \cup {row}],
                    tr2 \o <<"refresh", "close">>)

----------------------------------------------------------------------------
(* delete_item *)

\* as delete_item, but the row is removed from the table
delete_item_hard(model, index, fault, store, tr) ==
    LET g == get_item_by_id(model, index, store, tr)
        item == [g.loaded EXCEPT !["valid"] = B(FALSE)]
        err == CommitError(fault, store, model, item)
        tr2 == g.trace \o <<"add", "commit">>
    IN  IF g.outcome # "ok" THEN g
        ELSE IF err # "ok"
        THEN Exit("HTTP_500", NoResult, store, tr2 \o <<"rollback", "close">>, g.loaded)
        ELSE Exit("ok", NoResult,
                  [store EXCEPT ![model] = @ \ {g.loaded}],
                  tr2 \o <<"refresh", "close">>, g.loaded)

delete_item(model, index, fault, store, tr) ==
    LET g == get_item_by_id(model, index, store, tr)
        item == [g.loaded EXCEPT !["valid"] = B(FALSE)]
        err == CommitError(fault, store, model, item)
        tr2 == g.trace \o <<"add", "commit">>
    IN  IF g.outcome # "ok" THEN g
        ELSE IF err # "ok"
        THEN Exit("HTTP_500", NoResult, store, tr2 \o <<"rollback", "close">>, g.loaded)
        ELSE Exit("ok", NoResult,
                  [store EXCEPT ![model] = (@ \ {g.loaded}) \cup {item}],
                  tr2 \o <<"refresh", "close">>, g.loaded)

----------------------------------------------------------------------------
(* update_item: `req` is req.__dict__'s items in order. *)

\* The keyword parameters get_item_by_id declares, and those update_item
\* passes to it.
get_item_by_id_params == {"model", "index", "db"}
update_item_lookup_kwargs == {"model", "index", "db", "user_mode"}

\* dict_req: the pairs of `req` as a mapping
ReqDict(req) ==
    [key \in {req[i][1] : i \in 1..Len(req)} |->
        req[CHOOSE i \in 1..Len(req) : req[i][1] = key][2]]

\* The loop of lines 175-182 from key number i on; st is the item as
\* assigned so far, the exception that left the loop and the session calls.
RECURSIVE UpdateLoop(_, _, _, _, _)
UpdateLoop(model, req, i, st, store) ==
    IF i > Len(req) \/ st.outcome # "ok" THEN st
    ELSE LET key == req[i][1]
             value == req[i][2]
         IN  IF key \notin DOMAIN st.item
             THEN UpdateLoop(model, req, i + 1, st, store)
             ELSE IF ~IsInstance(value, st.item[key])
             THEN [st EXCEPT !.outcome = "HTTP_422"]
             ELSE LET v == valid_referenced_key(model, Dict(ReqDict(req)),
                                                store, st.trace)
                  IN  IF v.outcome # "ok"
                      THEN [st EXCEPT !.outcome = v.outcome, !.trace = v.trace]
                      ELSE UpdateLoop(model, req, i + 1,
                              [st EXCEPT !.item[key] = value, !.trace = v.trace],
                              store)

update_item(model, req, index, fault, store, tr) ==
    IF ~(update_item_lookup_kwargs \subseteq get_item_by_id_params)
    THEN Raise("TypeError", store, tr)
    ELSE
    LET g == get_item_by_id(model, index, store, tr)
        st == UpdateLoop(model, req, 1,
                         [item |-> g.loaded, outcome |-> "ok", trace |-> g.trace],
                         store)
        err == CommitError(fault, store, model, st.item)
        tr2 == st.trace \o <<"add", "commit">>
    IN  IF g.outcome # "ok" THEN g
        ELSE IF st.outcome # "ok"
        THEN Exit(Wrap500(st.outcome), NoResult, store,
                  st.trace \o <<"rollback", "close">>, g.loaded)
        ELSE IF err # "ok"
        THEN Exit(Wrap500(err), NoResult, store,
                  tr2 \o <<"rollback", "close">>, g.loaded)
        ELSE Exit("ok", ItemResult(st.item),
                  [store EXCEPT ![model] = (@ \ {g.loaded}) \cup {st.item}],
                  tr2 \o <<"refresh", "close">>, g.loaded)

----------------------------------------------------------------------------
(* filter_by_period, filters_by_query and get_list_of_item *)

\* as PeriodLoop, but the end bound is taken at the first instant of its day
RECURSIVE PeriodLoop_end_at_midnight(_, _, _, _)
PeriodLoop_end_at_midnight(query, date_column, p, i) ==
    IF i > Len(p) THEN query
    ELSE LET attr == p[i][1]
             value == p[i][2]
         IN  IF Truthy(value) /\ attr = "get_begin"
             THEN PeriodLoop_end_at_midnight(
                     Filter(query, date_column, "ge", combine(value, time_min)),
                     date_column, p, i + 1)
             ELSE IF Truthy(value) /\ attr = "get_end"
             THEN PeriodLoop_end_at_midnight(
                     Filter(query, date_column, "le", combine(value, time_min)),
                     date_column, p, i + 1)
             ELSE PeriodLoop_end_at_midnight(query, date_column, p, i + 1)

\* `for attr, value in p.__dict__.items()`, from the i-th item on
RECURSIVE PeriodLoop(_, _, _, _)
PeriodLoop(query, date_column, p, i) ==
    IF i > Len(p) THEN query
    ELSE LET attr == p[i][1]
             value == p[i][2]
         IN  IF Truthy(value) /\ attr = "get_begin"
             THEN PeriodLoop(Filter(query, date_column, "ge", combine(value, time_min)),
                             date_column, p, i + 1)
             ELSE IF Truthy(value) /\ attr = "get_end"
             THEN PeriodLoop(Filter(query, date_column, "le", combine(value, time_max)),
                             date_column, p, i + 1)
             ELSE PeriodLoop(query, date_column, p, i + 1)

\* The query handed back and the exception, if any, of reading the column.
filter_by_period(query, model, p, use_updated_at) ==
    LET date_column == IF use_updated_at THEN "updated_at" ELSE "created_at"
    IN  IF ~HasAttr(model, date_column)
        THEN [query |-> query, outcome |-> "AttributeError"]
        ELSE [query |-> PeriodLoop(query, date_column, p, 1), outcome |-> "ok"]

\* `init_query is None`
NoQuery == [model |-> "<none>", where |-> <<>>]

\* q is q.__dict__'s items in order; st is the query built so far and the
\* exception (getattr on a name the model lacks) that left the loop.
RECURSIVE filters_by_query(_, _, _, _)
filters_by_query(st, model, q, i) ==
    IF i > Len(q) \/ st.outcome # "ok" THEN st
    ELSE LET attr == q[i][1]
             value == q[i][2]
         IN  IF ~Truthy(value)
             THEN filters_by_query(st, model, q, i + 1)
             ELSE IF value.t = "str"
             THEN IF ~HasAttr(model, attr)
                  THEN [st EXCEPT !.outcome = "AttributeError"]
                  ELSE filters_by_query(
                          [st EXCEPT !.query =
                              Filter(@, attr, "ilike", S(<<"%">> \o value.v \o <<"%">>))],
                          model, q, i + 1)
             ELSE IF value.t \in {"int", "bool"}
             THEN IF ~HasAttr(model, attr)
                  THEN [st EXCEPT !.outcome = "AttributeError"]
                  ELSE filters_by_query(
                          [st EXCEPT !.query = Filter(@, attr, "eq", value)],
                          model, q, i + 1)
             ELSE filters_by_query(st, model, q, i + 1)

\* The column of the ORDER BY ... DESC, "" when none is imposed.
OrderBy(model) ==
    IF HasAttr(model, "update_datetime") THEN "update_datetime"
    ELSE IF HasAttr(model, "datetime") THEN "datetime"
    ELSE ""

\* The sequences in which the store may hand back `rows`: every enumeration
\* without repetition that is descending on `col` (any, when col = "").
Orderings(rows, col) ==
    {s \in [1..Cardinality(rows) -> rows] :
        /\ \A i, j \in DOMAIN s : i # j => s[i] # s[j]
        /\ col # "" => \A i, j \in DOMAIN s : i < j => s[i][col].v >= s[j][col].v}

Min(a, b) == IF a < b THEN a ELSE b

\* as Page, but the page takes one row more than `limit`
Page_one_too_many(ordered, skip, limit) ==
    SubSeq(ordered, skip + 1, Min(skip + limit + 1, Len(ordered)))

\* .offset(skip).limit(limit) of an ordered result
Page(ordered, skip, limit) ==
    SubSeq(ordered, skip + 1, Min(skip + limit, Len(ordered)))

\* The exits of get_list_of_item, one per order the store may choose.
get_list_of_item(model, skip, limit, q, init_query, store, tr) ==
    LET base == IF init_query = NoQuery
                THEN [query |-> Query(model), trace |-> Append(tr, "query")]
                ELSE [query |-> init_query, trace |-> tr]
        f == filters_by_query([query |-> base.query, outcome |-> "ok"], model, q, 1)
    IN  IF f.outcome # "ok"
        THEN {Raise(f.outcome, store, base.trace)}
        ELSE {LET result_ == Page(ordered, skip, limit)
              IN  IF result_ = <<>>
                  THEN Raise("HTTP_404", store, base.trace)
                  ELSE Return(PageResult(result_), store, Append(base.trace, "close"))
              : ordered \in Orderings(All(f.query, store), OrderBy(model))}

----------------------------------------------------------------------------
(* The requests the API layer makes. *)

IndexInputs == 1..(MaxRows + 1)

TitleInputs == {S(t) : t \in Titles} \cup {S(<<>>)}

PressIdInputs == {I(1), I(2), None}

\* `columns` arguments: empty, one entry, or title and press_id in either order
ColumnInputs ==
    {<<>>, << <<"bogus", I(1)>> >>, << <<"id", I(1)>> >>}
    \cup {<< <<"title", t>> >> : t \in TitleInputs}
    \cup {<< <<"press_id", p>> >> : p \in PressIdInputs}
    \cup {<< <<"title", S(t)>>, <<"press_id", p>> >> : t \in Titles, p \in {I(1), None}}
    \cup {<< <<"press_id", p>>, <<"title", S(t)>> >> : t \in Titles, p \in {I(1), None}}

\* create payloads: req.dict()
CreateInputs(model) ==
    IF model = "press" THEN {<<>>}
    ELSE {[title |-> S(t), press_id |-> p] :
             t \in Titles, p \in {I(n) : n \in 1..(MaxRows + 1)} \cup {None}}

\* update payloads: req.__dict__
UpdateInputs ==
    { << <<"title", S(<<"A", "b">>)>> >>,
      << <<"title", I(1)>> >>,
      << <<"press_id", I(2)>> >>,
      << <<"title", S(<<"a">>)>>, <<"press_id", I(1)>> >>,
      << <<"bogus", I(1)>> >> }

\* query specifications: q.__dict__
QInputs ==
    { <<>>,
      << <<"title", S(<<"a">>)>> >>,
      << <<"title", S(<<"B">>)>> >>,
      << <<"press_id", I(1)>> >>,
      << <<"valid", B(TRUE)>> >>,
      << <<"valid", B(FALSE)>> >>,
      << <<"title", S(<<"a">>)>>, <<"press_id", I(1)>> >>,
      << <<"bogus", I(1)>> >> }

\* init_query: None, or what get_item_by_column(mode=False) hands back
InitQueryInputs(model, store) ==
    {NoQuery} \cup
    {e.result.query :
        e \in {x \in {get_item_by_column(model, c, FALSE, store, <<>>) :
                        c \in {<< <<IF model = "press" THEN "id" ELSE "press_id", I(1)>> >>}} :
                 x.outcome = "ok"}}

Idle ==
    [op |-> "idle", model |-> "", index |-> 0, columns |-> <<>>, mode |-> FALSE,
     skip |-> 0, limit |-> 0, q |-> <<>>, init_query |-> NoQuery,
     req |-> <<>>, fields |-> <<>>, fault |-> "none", stamp |-> 0,
     p |-> <<>>, use_updated_at |-> FALSE]

\* The operation has run to its exit e.
Leave(c, e) ==
    /\ call' = c
    /\ outcome' = e.outcome
    /\ result' = e.result
    /\ db' = e.db
    /\ trace' = e.trace
    /\ loaded' = e.loaded
    /\ UNCHANGED orderColumn

GetItemById ==
    /\ call.op = "idle"
    /\ \E model \in Models, index \in IndexInputs :
          Leave([Idle EXCEPT !.op = "get_item_by_id", !.model = model, !.index = index],
                get_item_by_id(model, index, db, <<>>))

GetItemByColumn ==
    /\ call.op = "idle"
    /\ \E model \in Models, columns \in ColumnInputs, mode \in BOOLEAN :
          Leave([Idle EXCEPT !.op = "get_item_by_column", !.model = model,
                             !.columns = columns, !.mode = mode],
                get_item_by_column(model, columns, mode, db, <<>>))

GetListOfItem ==
    /\ call.op = "idle"
    /\ \E model \in Models, skip \in 0..MaxSkip, limit \in 0..MaxLimit, q \in QInputs :
       \E init_query \in InitQueryInputs(model, db) :
       \E e \in get_list_of_item(model, skip, limit, q, init_query, db, <<>>) :
          Leave([Idle EXCEPT !.op = "get_list_of_item", !.model = model,
                             !.skip = skip, !.limit = limit, !.q = q,
                             !.init_query = init_query],
                e)

CreateItem ==
    /\ call.op = "idle"
    /\ \E model \in Models, fault \in Faults, stamp \in Times :
          /\ Cardinality(db[model]) < MaxRows
          /\ \E req \in CreateInputs(model) :
                Leave([Idle EXCEPT !.op = "create_item", !.model = model, !.req = req,
                                   !.fault = fault, !.stamp = stamp],
                      create_item(model, req, fault, stamp, db, <<>>))

UpdateItem ==
    /\ call.op = "idle"
    /\ \E model \in Models, index \in IndexInputs, req \in UpdateInputs, fault \in Faults :
          Leave([Idle EXCEPT !.op = "update_item", !.model = model, !.index = index,
                             !.fields = req, !.fault = fault],
                update_item(model, req, index, fault, db, <<>>))

DeleteItem ==
    /\ call.op = "idle"
    /\ \E model \in Models, index \in IndexInputs, fault \in Faults :
          Leave([Idle EXCEPT !.op = "delete_item", !.model = model, !.index = index,
                             !.fault = fault],
                delete_item(model, index, fault, db, <<>>))

\* The API layer sends the response; the next request gets a new session.
Respond ==
    /\ call.op # "idle"
    /\ call' = Idle
    /\ outcome' = "ok"
    /\ result' = NoResult
    /\ trace' = <<>>
    /\ loaded' = NoItem
    /\ UNCHANGED <<db, orderColumn>>

\* The store as the first request finds it: one press, and no article or one
\* article of that press.
SeedStores ==
    {[press |-> {Row("press", 1, None, None, TRUE, 1)}, articles |-> a] :
        a \in {{}, {Row("articles", 1, S(<<"a">>), I(1), TRUE, 1)}}}

Init ==
    /\ orderColumn \in {"update_datetime", "datetime"}
    /\ db \in SeedStores
    /\ call = Idle
    /\ outcome = "ok"
    /\ result = NoResult
    /\ trace = <<>>
    /\ loaded = NoItem

Next ==
    \/ GetItemById
    \/ GetItemByColumn
    \/ GetListOfItem
    \/ CreateItem
    \/ UpdateItem
    \/ DeleteItem
    \/ Respond

Spec == Init /\ [][Next]_vars

\* The same requests against a schema whose articles carry `updated_at`.
InitUpdatedAt ==
    /\ orderColumn = "updated_at"
    /\ db \in SeedStores
    /\ call = Idle
    /\ outcome = "ok"
    /\ result = NoResult
    /\ trace = <<>>
    /\ loaded = NoItem

SpecUpdatedAt == InitUpdatedAt /\ [][Next]_vars

----------------------------------------------------------------------------
(* The two query filters on their own: the API layer hands them a query,   *)
(* an entity class and a filter object, and runs the query they return.    *)

Days == 1..MaxDay

Instants == {d * TicksPerDay + t : d \in Days, t \in 0..(TicksPerDay - 1)}

Record(id, created, updated, valid) ==
    [c \in Columns("records") |->
        CASE c = "id" -> I(id)
          [] c = "valid" -> B(valid)
          [] c = "created_at" -> D(created)
          [] c = "updated_at" -> D(updated)]

\* The records table, empty or with one record, valid or not, for every pair
\* of instants: a record is updated no earlier than it was created.
RecordTables ==
    {{},
     {Record(2 * (x[1] * TicksPerDay * (MaxDay + 1) + x[2]) + (IF v THEN 1 ELSE 0),
             x[1], x[2], v) :
         x \in {y \in Instants \X Instants : y[1] <= y[2]}, v \in BOOLEAN}}

\* The articles tables of n rows numbered 1..n, n up to MaxRows.
ArticleTables ==
    UNION {{{Row("articles", i, S(f[i][1]), f[i][2], f[i][3], 1) : i \in 1..n} :
               f \in [1..n -> Titles \X {I(1), None} \X BOOLEAN]} :
           n \in 0..MaxRows}

FilterStores ==
    {[press |-> {Row("press", 1, None, None, TRUE, 1)}, articles |-> a, records |-> {}] :
        a \in ArticleTables}
    \cup
    {[press |-> {Row("press", 1, None, None, TRUE, 1)}, articles |-> {}, records |-> r] :
        r \in RecordTables}

\* p.__dict__: get_begin and get_end, each a date or None, in either order
PInputs ==
    LET dates == {Date(d) : d \in Days} \cup {None}
    IN  {<< <<"get_begin", b>>, <<"get_end", e>> >> : b \in dates, e \in dates}
        \cup {<< <<"get_end", e>>, <<"get_begin", b>> >> : b \in dates, e \in dates}

\* q.__dict__ of a query specification with three fields, set or not
FilterQInputs ==
    {<< <<"title", t>>, <<"press_id", n>>, <<"valid", v>> >> :
        t \in {None, S(<<>>), S(<<"a">>), S(<<"B">>), S(<<"_">>), S(<<"%">>)},
        n \in {None, I(0), I(1)},
        v \in {None, B(FALSE), B(TRUE)}}
    \cup {<< <<"bogus", I(1)>> >>}

\* the query a filter is handed: db.query(model), or one already narrowed
QueryInputs(model) ==
    {Query(model), Filter(Query(model), "valid", "is_true", B(TRUE))}

InitFilters ==
    /\ orderColumn = "update_datetime"
    /\ db \in FilterStores
    /\ call = Idle
    /\ outcome = "ok"
    /\ result = NoResult
    /\ trace = <<>>
    /\ loaded = NoItem

FilterByPeriod ==
    /\ call.op = "idle"
    /\ \E model \in {"records", "press"}, p \in PInputs, use_updated_at \in BOOLEAN :
       \E query \in QueryInputs(model) :
          LET f == filter_by_period(query, model, p, use_updated_at)
          IN  Leave([Idle EXCEPT !.op = "filter_by_period", !.model = model,
                                 !.init_query = query, !.p = p,
                                 !.use_updated_at = use_updated_at],
                    IF f.outcome = "ok"
                    THEN Return(QueryResult(f.query), db, <<>>)
                    ELSE Raise(f.outcome, db, <<>>))

FiltersByQuery ==
    /\ call.op = "idle"
    /\ \E model \in {"articles"}, q \in FilterQInputs :
       \E query \in QueryInputs(model) :
          LET f == filters_by_query([query |-> query, outcome |-> "ok"], model, q, 1)
          IN  Leave([Idle EXCEPT !.op = "filters_by_query", !.model = model,
                                 !.init_query = query, !.q = q],
                    IF f.outcome = "ok"
                    THEN Return(QueryResult(f.query), db, <<>>)
                    ELSE Raise(f.outcome, db, <<>>))

NextFilters ==
    \/ FilterByPeriod
    \/ FiltersByQuery

SpecFilters == InitFilters /\ [][NextFilters]_vars

----------------------------------------------------------------------------
(* Vocabulary of the properties *)

Last(seq) == seq[Len(seq)]

Has(seq, x) == \E i \in 1..Len(seq) : seq[i] = x

\* The errors the layer classifies for its caller.
Classified == {"HTTP_400", "HTTP_404", "HTTP_422", "HTTP_500", "ItemKeyValidationError"}

Stored(model, index) == {r \in db[model] : r["id"] = I(index)}

\* The entries of a `columns` / payload sequence that name a column of the
\* model and carry a truthy value.
Supplied(model, pairs) ==
    {i \in 1..Len(pairs) : pairs[i][1] \in Columns(model) /\ Truthy(pairs[i][2])}

----------------------------------------------------------------------------
(* C1: no record whose valid flag is false is ever returned by             *)
(* get_list_of_item, by get_item_by_column with mode=True or by            *)
(* get_item_by_id.                                                         *)
C1_NoInvalidRowReturned ==
    outcome = "ok" =>
        /\ call.op = "get_list_of_item" =>
              \A i \in 1..Len(result.page) : result.page[i]["valid"] = B(TRUE)
        /\ (call.op = "get_item_by_column" /\ call.mode) =>
              \A r \in result.rows : r["valid"] = B(TRUE)
        /\ call.op = "get_item_by_id" => result.item["valid"] = B(TRUE)

(* C2: create_item with a foreign-key value that has no row in the         *)
(* referenced table fails with HTTP 404 and leaves the stored rows as they *)
(* were.                                                                   *)
C2_DanglingCreateIsNotFound ==
    [][ ( /\ call'.op = "create_item"
          /\ call'.model = "articles"
          /\ call'.req["press_id"].t = "int"
          /\ \A r \in db["press"] : r["id"] # call'.req["press_id"] )
        => (outcome' = "HTTP_404" /\ db' = db) ]_vars

(* C3: update_item with a payload field of the entity whose value type     *)
(* differs from the stored field's type fails with HTTP 422 and leaves the *)
(* stored record unchanged.                                                *)
C3_TypeMismatchIsUnprocessable ==
    [][ ( /\ call'.op = "update_item"
          /\ \E row \in db[call'.model] :
                /\ row["id"] = I(call'.index)
                /\ \E i \in 1..Len(call'.fields) :
                      /\ call'.fields[i][1] \in Columns(call'.model)
                      /\ ~IsInstance(call'.fields[i][2], row[call'.fields[i][1]]) )
        => (outcome' = "HTTP_422" /\ db' = db) ]_vars

(* C4: every operation has closed its session by the time it exits, on     *)
(* every exit path.                                                        *)
C4_SessionClosedAtExit ==
    call.op # "idle" => (trace # <<>> /\ Last(trace) = "close")

(* C5: in create_item, update_item and delete_item, when the reference     *)
(* lookup, add, commit or refresh raises, the transaction is rolled back   *)
(* before the exit (by rollback(), or by the close() that discards it),    *)
(* the caller gets a classified error, never the raw exception, and no add *)
(* is left pending in the session.                                         *)
C5_RollbackAndClassifiedError ==
    ( /\ call.op \in {"create_item", "update_item", "delete_item"}
      /\ outcome \notin {"ok", "ItemKeyValidationError", "TypeError"} )
    => /\ outcome \in Classified
       /\ Has(trace, "rollback") \/ Last(trace) = "close"
       /\ \A i \in 1..Len(trace) :
             trace[i] = "add" =>
                \E j \in (i + 1)..Len(trace) : trace[j] \in {"rollback", "close"}

(* C6: delete_item of an id that resolves to a stored record succeeds and  *)
(* leaves the record with valid=false, also when the record was already    *)
(* invalid (the second of two calls in a row).                             *)
C6_DeleteIsIdempotent ==
    ( /\ call.op = "delete_item"
      /\ call.fault = "none"
      /\ Stored(call.model, call.index) # {} )
    => /\ outcome = "ok"
       /\ \A r \in Stored(call.model, call.index) : r["valid"] = B(FALSE)

\* a delete_item of a record that was already invalid has succeeded
C6_Witness ==
    /\ call.op = "delete_item"
    /\ outcome = "ok"
    /\ loaded["valid"] = B(FALSE)

(* C7: valid_referenced_key returns true exactly when every foreign-key    *)
(* column for which the candidate carries a value has a row with that      *)
(* value in the table the column references. create_item adds the          *)
(* candidate exactly when the validator returned true.                     *)
C7_ValidatorLooksInReferencedTable ==
    call.op = "create_item" =>
        ( Has(trace, "add")
          <=> \A k \in 1..Len(ForeignKeys(call.model)) :
                 LET fk == ForeignKeys(call.model)[k]
                 IN  \/ call.req[fk[1]] = None
                     \/ \E r \in db[fk[2]] : r["id"] = call.req[fk[1]] )

(* C8: get_item_by_column with mode=True returns exactly the stored rows   *)
(* with valid=true that equal the supplied value on every supplied column. *)
C8_AllSuppliedColumnsConstrain ==
    (call.op = "get_item_by_column" /\ call.mode /\ outcome = "ok") =>
        result.rows =
            {r \in db[call.model] :
                /\ r["valid"] = B(TRUE)
                /\ \A i \in Supplied(call.model, call.columns) :
                      r[call.columns[i][1]] = call.columns[i][2]}

(* C9: update_item on an existing id with a payload whose entity fields    *)
(* all match the stored types and whose foreign keys resolve succeeds,     *)
(* returns the entity with those fields set, and the stored record carries *)
(* all of them.                                                            *)
C9_WellTypedUpdateSucceeds ==
    [][ ( /\ call'.op = "update_item"
          /\ call'.fault = "none"
          /\ \E i \in 1..Len(call'.fields) : call'.fields[i][1] \in Columns(call'.model)
          /\ \E row \in db[call'.model] :
                /\ row["id"] = I(call'.index)
                /\ \A i \in 1..Len(call'.fields) :
                      call'.fields[i][1] \in Columns(call'.model) =>
                         IsInstance(call'.fields[i][2], row[call'.fields[i][1]])
          /\ \A i \in 1..Len(call'.fields) :
                call'.fields[i][1] = "press_id" =>
                   \E r \in db["press"] : r["id"] = call'.fields[i][2] )
        => /\ outcome' = "ok"
           /\ \A i \in 1..Len(call'.fields) :
                 call'.fields[i][1] \in Columns(call'.model) =>
                    /\ result'.item[call'.fields[i][1]] = call'.fields[i][2]
                    /\ \A r \in {x \in db'[call'.model] : x["id"] = I(call'.index)} :
                          r[call'.fields[i][1]] = call'.fields[i][2] ]_vars

\* The rows get_list_of_item is to page through: those of init_query (or of
\* the whole table) that satisfy every non-empty field of q.
C10_Filtered ==
    {r \in IF call.init_query = NoQuery THEN db[call.model]
           ELSE All(call.init_query, db) :
        \A i \in 1..Len(call.q) :
            Truthy(call.q[i][2]) =>
                IF call.q[i][2].t = "str"
                THEN Contains(LowerStr(r[call.q[i][1]].v), LowerStr(call.q[i][2].v))
                ELSE r[call.q[i][1]] = call.q[i][2]}

\* The length of the page that skip and limit select from them.
C10_PageLength ==
    LET n == Cardinality(C10_Filtered)
        rest == IF n > call.skip THEN n - call.skip ELSE 0
    IN  IF rest < call.limit THEN rest ELSE call.limit

(* C10: get_list_of_item fails with HTTP 404 exactly when the page that    *)
(* skip and limit select from the filtered rows is empty; otherwise it     *)
(* returns that page: non-empty, at most `limit` rows, without repetition, *)
(* all of them filtered rows.                                              *)
C10_NotFoundIffPageEmpty ==
    (call.op = "get_list_of_item" /\ outcome # "AttributeError") =>
        /\ outcome \in {"ok", "HTTP_404"}
        /\ outcome = "HTTP_404" <=> C10_PageLength = 0
        /\ outcome = "ok" =>
              /\ Len(result.page) = C10_PageLength
              /\ Len(result.page) > 0
              /\ Len(result.page) <= call.limit
              /\ \A i \in 1..Len(result.page) : result.page[i] \in C10_Filtered
              /\ \A i, j \in 1..Len(result.page) :
                    i # j => result.page[i] # result.page[j]

\* a page cut short by skip: the second row of two, returned alone
C10_Witness ==
    /\ call.op = "get_list_of_item"
    /\ outcome = "ok"
    /\ call.skip = 1
    /\ call.limit = 2
    /\ Len(result.page) = 1

\* a skip past the last matching row of a non-empty filtered set
C10_WitnessNotFound ==
    /\ call.op = "get_list_of_item"
    /\ outcome = "HTTP_404"
    /\ call.limit > 0
    /\ call.skip >= Cardinality(C10_Filtered)
    /\ Cardinality(C10_Filtered) > 0

(* C11: create_item whose insert violates a uniqueness or integrity        *)
(* constraint fails with Conflict (HTTP 409), the transaction is rolled    *)
(* back and the stored rows are the same after the call as before it.      *)
C11_IntegrityViolationIsConflict ==
    [][ ( /\ call'.op = "create_item"
          /\ call'.fault = "IntegrityError"
          /\ Has(trace', "commit") )
        => /\ outcome' = "HTTP_409"
           /\ Has(trace', "rollback")
           /\ db' = db ]_vars

(* C11, amended: create_item whose insert violates a uniqueness or         *)
(* integrity constraint fails with HTTP 400 (Bad Request), the transaction *)
(* is rolled back after the failed commit and the stored rows are the same *)
(* after the call as before it.                                            *)
C11_IntegrityViolationIsBadRequest ==
    [][ ( /\ call'.op = "create_item"
          /\ call'.fault = "IntegrityError"
          /\ Has(trace', "commit") )
        => /\ outcome' = "HTTP_400"
           /\ \E i, j \in 1..Len(trace') :
                 i < j /\ trace'[i] = "commit" /\ trace'[j] = "rollback"
           /\ db' = db ]_vars

\* an insert of an article whose references were found, refused by the store
C11_Witness ==
    /\ call.op = "create_item"
    /\ call.model = "articles"
    /\ call.fault = "IntegrityError"
    /\ outcome = "HTTP_400"
    /\ Has(trace, "rollback")

(* C15: a successful delete_item changes only the `valid` field of the     *)
(* record with the given id, to false: the record stays in its table with  *)
(* its other fields as they were, every other record is unchanged and the  *)
(* number of stored rows is unchanged.                                     *)
C15_DeleteIsSoft ==
    [][ (call'.op = "delete_item" /\ outcome' = "ok")
        => /\ \A m \in Models \ {call'.model} : db'[m] = db[m]
           /\ Cardinality(db'[call'.model]) = Cardinality(db[call'.model])
           /\ \E r \in db[call'.model] :
                 /\ r["id"] = I(call'.index)
                 /\ [r EXCEPT !["valid"] = B(FALSE)] \in db'[call'.model]
                 /\ db'[call'.model] \ {[r EXCEPT !["valid"] = B(FALSE)]}
                       = db[call'.model] \ {r} ]_vars

\* a valid article deleted while another article is stored
C15_Witness ==
    /\ call.op = "delete_item"
    /\ call.model = "articles"
    /\ outcome = "ok"
    /\ loaded["valid"] = B(TRUE)
    /\ Cardinality(db["articles"]) = 2
    /\ \E r \in db["articles"] : r["id"] = I(call.index) /\ r["valid"] = B(FALSE)

(* C16: within one operation the session is closed once, as the last call  *)
(* on it: no query, add, commit, refresh or rollback follows a close.      *)
C16_CloseIsLastSessionCall ==
    \A i \in 1..Len(trace) :
        trace[i] = "close" =>
            \A j \in (i + 1)..Len(trace) :
                trace[j] \notin {"query", "add", "commit", "refresh", "rollback", "close"}

(* C17: in create_item every add and commit comes after valid_referenced_key *)
(* returned true in the same call; in update_item a foreign-key field of   *)
(* the item differs from the loaded one only after the validator returned  *)
(* true; when the validator did not return true nothing is committed.      *)
C17_ValidationPrecedesPersistence ==
    /\ call.op = "create_item" =>
          \A i \in 1..Len(trace) :
              trace[i] \in {"add", "commit"} =>
                  \E j \in 1..(i - 1) : trace[j] = "validated"
    /\ (call.op = "update_item" /\ result.kind = "item") =>
          \A k \in 1..Len(ForeignKeys(call.model)) :
              result.item[ForeignKeys(call.model)[k][1]]
                    # loaded[ForeignKeys(call.model)[k][1]]
                 => Has(trace, "validated")
    /\ (call.op \in {"create_item", "update_item"} /\ ~Has(trace, "validated")) =>
          ~Has(trace, "commit")

\* an article added after its reference lookup found a row
C17_Witness ==
    /\ call.op = "create_item"
    /\ call.model = "articles"
    /\ outcome = "ok"
    /\ \E i, j, k \in 1..Len(trace) :
          /\ i < j /\ j < k
          /\ trace[i] = "query" /\ trace[j] = "validated" /\ trace[k] = "add"

\* a create_item whose validator raised: nothing added, nothing committed
C17_WitnessRefused ==
    /\ call.op = "create_item"
    /\ outcome = "HTTP_500"
    /\ ~Has(trace, "validated")
    /\ ~Has(trace, "add")

(* C18: get_item_by_column with no entry of `columns` that has both a      *)
(* truthy value and the name of a column of the entity does not fail: it   *)
(* returns a query handle (mode=False) or a result set (mode=True).        *)
C18_NoUsableColumnDoesNotFail ==
    (call.op = "get_item_by_column" /\ Supplied(call.model, call.columns) = {}) =>
        /\ outcome = "ok"
        /\ result.kind = IF call.mode THEN "rows" ELSE "query"

\* The column the page is to be ordered by, "" when no order is imposed.
C14_OrderColumn ==
    IF "updated_at" \in Columns(call.model) THEN "updated_at"
    ELSE IF "datetime" \in Columns(call.model) THEN "datetime"
    ELSE ""

(* C14: the page get_list_of_item returns is the rows at positions skip .. *)
(* skip+limit-1 of the filtered rows ordered by `updated_at` descending    *)
(* when the entity has that column, else by `datetime` descending when it  *)
(* has that column, else in some order.                                    *)
C14_PageOfDescendingOrder ==
    (call.op = "get_list_of_item" /\ outcome = "ok") =>
        \E s \in [1..Cardinality(C10_Filtered) -> C10_Filtered] :
            /\ \A i, j \in DOMAIN s : i # j => s[i] # s[j]
            /\ C14_OrderColumn # "" =>
                  \A i, j \in DOMAIN s :
                      i < j => s[i][C14_OrderColumn].v >= s[j][C14_OrderColumn].v
            /\ result.page =
                  SubSeq(s, call.skip + 1,
                         IF call.skip + call.limit < Len(s)
                         THEN call.skip + call.limit ELSE Len(s))

\* The day given for one end of the period, 0 when that end is absent.
C12_Day(attr) ==
    IF \E i \in 1..Len(call.p) : call.p[i][1] = attr /\ call.p[i][2] # None
    THEN call.p[CHOOSE i \in 1..Len(call.p) : call.p[i][1] = attr][2].v
    ELSE 0

\* The calendar day the selected timestamp of a row falls on.
C12_DayOf(r) ==
    LET stamp == r[IF call.use_updated_at THEN "updated_at" ELSE "created_at"].v
    IN  CHOOSE d \in 0..(MaxDay + 1) :
            d * TicksPerDay <= stamp /\ stamp < (d + 1) * TicksPerDay

(* C12: the query filter_by_period returns selects exactly the rows of the *)
(* query it was given whose selected timestamp (updated_at if              *)
(* use_updated_at, else created_at) falls on a day from b to e inclusive;  *)
(* with only b, on day b or later; with only e, on day e or earlier; with  *)
(* neither, the query is returned unchanged.                               *)
C12_ExactlyTheRowsOfThePeriod ==
    (call.op = "filter_by_period" /\ outcome = "ok") =>
        /\ All(result.query, db) =
              {r \in All(call.init_query, db) :
                  /\ C12_Day("get_begin") # 0 => C12_DayOf(r) >= C12_Day("get_begin")
                  /\ C12_Day("get_end") # 0 => C12_DayOf(r) <= C12_Day("get_end")}
        /\ (C12_Day("get_begin") = 0 /\ C12_Day("get_end") = 0) =>
              result.query = call.init_query

\* a period of two days that keeps a row stamped at the last instant of its
\* last day and drops a row of the day after
C12_Witness ==
    /\ call.op = "filter_by_period"
    /\ outcome = "ok"
    /\ C12_Day("get_begin") # 0
    /\ C12_Day("get_begin") < C12_Day("get_end")
    /\ \E r \in All(result.query, db) :
          r[IF call.use_updated_at THEN "updated_at" ELSE "created_at"].v
             = C12_Day("get_end") * TicksPerDay + TicksPerDay - 1
    /\ \E r \in db["records"] \ All(result.query, db) :
          C12_DayOf(r) > C12_Day("get_end")

\* c occurs in s as a run of characters, letters compared without their case
C13_ContainsIgnoringCase(s, c) ==
    \E k \in 0..(Len(s) - Len(c)) :
        \A i \in 1..Len(c) :
            \/ s[k + i] = c[i]
            \/ {s[k + i], c[i]} \in {{"a", "A"}, {"b", "B"}}

(* C13: filters_by_query returns exactly the rows that satisfy every       *)
(* condition of the query specification, one per field that is not None,   *)
(* empty, 0 or False: equality for an integer or boolean value, substring  *)
(* match without regard to case for a string value.                        *)
C13_ExactlyTheMatchingRows ==
    (call.op = "filters_by_query" /\ outcome = "ok") =>
        All(result.query, db) =
            {r \in All(call.init_query, db) :
                \A i \in 1..Len(call.q) :
                    LET attr == call.q[i][1]
                        value == call.q[i][2]
                    IN  CASE value \in {None, S(<<>>), I(0), B(FALSE)} -> TRUE
                          [] value.t = "str" ->
                                /\ r[attr].t = "str"
                                /\ C13_ContainsIgnoringCase(r[attr].v, value.v)
                          [] OTHER -> r[attr] = value}

=============================================================================
